---- MODULE Spec2Model ----
(***************************************************************************)
(* Model of src/socket.c (lua-eco core socket binding).                    *)
(*                                                                         *)
(* One Lua-visible call is in flight at a time.  A handler without a retry *)
(* loop is one action (argument checks, address encoding, the syscall and  *)
(* the pushed results).  A handler with an `again:` label is an entry      *)
(* action followed by one action per iteration of the loop: the kernel's   *)
(* answer to each syscall is drawn nondeterministically.                   *)
(***************************************************************************)
EXTENDS Integers, Sequences, FiniteSets, TLC

(***************************************************************************)
(* Bounds of the model.                                                    *)
(***************************************************************************)
\* most consecutive EINTR answers the kernel gives to one call
MaxEINTR == 2
\* size of the descriptor table: socket()/accept4() fail with EMFILE beyond
MaxFds == 1
\* width of size_t in bits (64 on LP64; scaled down to fit TLC's integers)
SizeBits == 16

(***************************************************************************)
(* Platform constants used by the source.                                  *)
(***************************************************************************)
AF_UNSPEC == 0
AF_UNIX == 1
AF_INET == 2
AF_INET6 == 10
AF_NETLINK == 16

EINTR == 4
EBADF == 9
EAGAIN == 11
ENOMEM == 12
EMFILE == 24
EPIPE == 32
ECONNREFUSED == 111
EINPROGRESS == 115

\* sizeof(((struct sockaddr_un *)0)->sun_path)
SUN_PATH_SIZE == 108
\* offsetof(struct sockaddr_un, sun_path), the `2` of push_socket_addr
SUN_PATH_OFFSET == 2
IFNAMSIZ == 16
SIZEOF_SOCKADDR_IN == 16
SIZEOF_SOCKADDR_IN6 == 28
SIZEOF_SOCKADDR_NL == 12
\* the `%.35s` of the unsupported-option message
OPT_MSG_PRECISION == 35
FIRST_FD == 3

(***************************************************************************)
(* Lua values pushed on the stack.                                         *)
(***************************************************************************)
LNil == [t |-> "nil"]
LBool(b) == [t |-> "boolean", v |-> b]
LInt(i) == [t |-> "integer", v |-> i]
\* lua_pushstring / lua_pushliteral of a text
LStr(s) == [t |-> "string", v |-> s]
\* lua_pushlstring of raw bytes
LBytes(b) == [t |-> "string", b |-> b]
\* lua_pushstring of the presentation form of an address
LIp(a) == [t |-> "string", ip |-> a]
LTable(r) == [t |-> "table", f |-> r]

(***************************************************************************)
(* libc helpers.                                                           *)
(***************************************************************************)
Rep(c, n) == [i \in 1..n |-> c]

Min(a, b) == IF a <= b THEN a ELSE b

RECURSIVE Pow2(_)
Pow2(n) == IF n = 0 THEN 1 ELSE 2 * Pow2(n - 1)

\* strlen(): bytes before the first NUL of a buffer
RECURSIVE strlenFrom(_, _)
strlenFrom(buf, i) ==
    IF i > Len(buf) \/ buf[i] = 0 THEN i - 1 ELSE strlenFrom(buf, i + 1)

strlen(buf) == strlenFrom(buf, 1)

\* strerror(): the glibc text of an errno
strerror(e) ==
    CASE e = EINTR -> "Interrupted system call"
      [] e = EBADF -> "Bad file descriptor"
      [] e = EAGAIN -> "Resource temporarily unavailable"
      [] e = ENOMEM -> "Cannot allocate memory"
      [] e = EMFILE -> "Too many open files"
      [] e = EPIPE -> "Broken pipe"
      [] e = ECONNREFUSED -> "Connection refused"
      [] e = EINPROGRESS -> "Operation now in progress"
      [] OTHER -> "Unknown error"

\* htons(): the two bytes of a port in network order (argument is uint16_t)
htons(port) == << ((port % 65536) \div 256), (port % 256) >>

ntohs(w) == w[1] * 256 + w[2]

\* conversion of a lua_Integer to size_t
ToSizeT(n) == n % Pow2(SizeBits)

\* A textual IPv4 address is its dotted fields, a textual IPv6 address its
\* eight colon separated groups; NilIp is an absent (nil) argument.
NilIp == << -1 >>

inet_pton4_ok(ip) == Len(ip) = 4 /\ \A i \in 1..4 : ip[i] \in 0..255

inet_pton4(ip) == ip

inet_ntop4(bytes) == bytes

inet_pton6_ok(ip) == Len(ip) = 8 /\ \A i \in 1..8 : ip[i] \in 0..65535

inet_pton6(ip) ==
    [i \in 1..16 |-> IF i % 2 = 1 THEN ip[(i + 1) \div 2] \div 256
                                  ELSE ip[i \div 2] % 256]

inet_ntop6(bytes) == [i \in 1..8 |-> bytes[2 * i - 1] * 256 + bytes[2 * i]]

Zero4 == Rep(0, 4)
Zero16 == Rep(0, 16)

(***************************************************************************)
(* Address encoding: the struct and length each handler passes on.         *)
(***************************************************************************)
NoAddr == [addr |-> [sa_family |-> AF_UNSPEC], len |-> 0]

\* struct sockaddr_in addr = { .sin_family, .sin_port }; inet_pton(...)
EncodeInet(ip, port) ==
    [addr |-> [sa_family |-> AF_INET, sin_port |-> htons(port),
               sin_addr |-> IF ip = NilIp THEN Zero4 ELSE inet_pton4(ip)],
     len |-> SIZEOF_SOCKADDR_IN]

EncodeInet6(ip, port) ==
    [addr |-> [sa_family |-> AF_INET6, sin6_port |-> htons(port),
               sin6_addr |-> IF ip = NilIp THEN Zero16 ELSE inet_pton6(ip)],
     len |-> SIZEOF_SOCKADDR_IN6]

\* SUN_LEN(): offsetof(sun_path) + strlen(sun_path)
SUN_LEN(sun_path) == SUN_PATH_OFFSET + strlen(sun_path)

\* zeroed struct sockaddr_un, then strcpy()/memcpy() of the path
EncodeUnix(path) ==
    LET sun_path == [i \in 1..SUN_PATH_SIZE |->
                        IF i <= Len(path) THEN path[i] ELSE 0]
    IN [addr |-> [sa_family |-> AF_UNIX, sun_path |-> sun_path],
        len |-> SUN_LEN(sun_path)]

EncodeNl(groups, pid) ==
    [addr |-> [sa_family |-> AF_NETLINK, nl_pid |-> pid, nl_groups |-> groups],
     len |-> SIZEOF_SOCKADDR_NL]

(***************************************************************************)
(* Address decoding.                                                       *)
(***************************************************************************)
PushNlFields(addr) ==
    IF addr.sa_family = AF_NETLINK
    THEN [family |-> LInt(addr.sa_family), pid |-> LInt(addr.nl_pid)]
    ELSE [family |-> LInt(addr.sa_family)]

push_socket_addr(addr, len) ==
    LET family == addr.sa_family
        t1 == PushNlFields(addr)
    IN LTable(
         IF family = AF_UNIX
         THEN [family |-> LInt(family),
               path |-> LBytes(SubSeq(addr.sun_path, 1, len - SUN_PATH_OFFSET))]
         ELSE IF family = AF_INET
         THEN [family |-> LInt(family),
               port |-> LInt(ntohs(addr.sin_port)),
               ipaddr |-> LIp(inet_ntop4(addr.sin_addr))]
         ELSE IF family = AF_INET6
         THEN [family |-> LInt(family),
               port |-> LInt(ntohs(addr.sin6_port)),
               ipaddr |-> LIp(inet_ntop6(addr.sin6_addr))]
         ELSE t1)

(***************************************************************************)
(* State.                                                                  *)
(***************************************************************************)
VARIABLES
    pc,       \* "idle", "again" (at the label of a retry loop) or "done"
    op,       \* the Lua function being, or last, called
    arg,      \* its arguments
    ret,      \* what the call left to the caller: values returned or an error raised
    sys,      \* the syscalls the call has issued, each with the errno it got (0: success)
    sysAddr,  \* the address and length given to the call's address-taking syscall
    mallocs,  \* malloc() calls made by the call
    buf,      \* whether the call holds an allocated buffer
    fds       \* the descriptors the calls have created, with their flags

vars == <<pc, op, arg, ret, sys, sysAddr, mallocs, buf, fds>>

DefaultArg ==
    [fd |-> 0, ip |-> NilIp, port |-> 0, path |-> <<>>, pid |-> 0, groups |-> 0,
     data |-> <<>>, n |-> 0, name |-> <<>>, val |-> LNil, type |-> {}]

NoMsg == [text |-> "", name |-> <<>>]

NoRet == [kind |-> "none", vals |-> <<>>, narg |-> 0, msg |-> NoMsg]

\* `return k` with the k values pushed
Return(vals) == [kind |-> "return", vals |-> vals, narg |-> 0, msg |-> NoMsg]

\* luaL_argerror(L, narg, text): raises, nothing is returned
luaL_argerror(narg, text, name) ==
    [kind |-> "raise", vals |-> <<>>, narg |-> narg,
     msg |-> [text |-> text, name |-> name]]

SysCall(call, e) == [call |-> call, opt |-> "", err |-> e]

\* getsockopt()/setsockopt() of one option
SysOpt(call, opt, e) == [call |-> call, opt |-> opt, err |-> e]

(***************************************************************************)
(* Inputs.                                                                 *)
(***************************************************************************)
FdInputs == {FIRST_FD}

PortInputs == {8080, 65535}

Ip4Inputs == { <<127, 0, 0, 1>>, <<300, 1, 1, 1>> }

Ip6Inputs == { <<8193, 3512, 0, 0, 0, 0, 0, 258>>, <<1, 2, 3>> }

\* C strings: no embedded NUL
PathInputs == { Rep(97, k) : k \in {0, 1, SUN_PATH_SIZE - 1, SUN_PATH_SIZE,
                                    SUN_PATH_SIZE + 1} }

\* Lua strings taken with their length: may hold NUL bytes
LPathInputs == PathInputs \cup { <<0, 97, 98>>, <<97, 0, 98>> }

PidInputs == {0, 7}

GroupsInputs == {1, 5}

TypeInputs == { {"SOCK_STREAM"}, {"SOCK_STREAM", "SOCK_NONBLOCK"},
                {"SOCK_STREAM", "SOCK_CLOEXEC"} }

(***************************************************************************)
(* The kernel's answers.                                                   *)
(***************************************************************************)
SocketErrs == {EMFILE}
BindErrs == {EBADF}
ListenErrs == {EBADF}
ConnectErrs == {EINTR, EINPROGRESS, ECONNREFUSED}
AcceptErrs == {EINTR, EAGAIN, EMFILE}
SendErrs == {EINTR, EAGAIN, EPIPE}
RecvErrs == {EINTR, EAGAIN, ECONNREFUSED}
NameErrs == {EBADF}

\* what the peer has sent
KernelBytes == <<104, 105>>

\* malloc() refuses a request above PTRDIFF_MAX, and may fail below it
PTRDIFF_MAX == Pow2(SizeBits - 1) - 1

\* addresses as the kernel stores them into the caller's buffer
KernelAddrs ==
    { EncodeInet(<<127, 0, 0, 1>>, 8080),
      EncodeInet6(<<8193, 3512, 0, 0, 0, 0, 0, 258>>, 8080),
      EncodeUnix(<<97, 98>>),
      EncodeUnix(<<>>),
      EncodeNl(5, 7) }

\* recvfrom() on a connected socket stores no address: addrlen is 0
KernelSrcAddrs == KernelAddrs \cup {NoAddr}

\* EINTR answers the call has had so far
RECURSIVE CountEINTR(_)
CountEINTR(s) ==
    IF s = <<>> THEN 0
    ELSE (IF s[Len(s)].err = EINTR THEN 1 ELSE 0) + CountEINTR(SubSeq(s, 1, Len(s) - 1))

MayAnswer(e) == (e = EINTR) => CountEINTR(sys) < MaxEINTR

UsedFds == { d.fd : d \in fds }

\* the lowest free slot of the descriptor table
NewFd == CHOOSE f \in FIRST_FD..(FIRST_FD + MaxFds) :
            f \notin UsedFds /\ \A g \in FIRST_FD..(f - 1) : g \in UsedFds

TableFull == Cardinality(fds) >= MaxFds

(***************************************************************************)
(* Initial state.                                                          *)
(***************************************************************************)
Init ==
    /\ pc = "idle"
    /\ op = "none"
    /\ arg = DefaultArg
    /\ ret = NoRet
    /\ sys = <<>>
    /\ sysAddr = NoAddr
    /\ mallocs = 0
    /\ buf = FALSE
    /\ fds = {}

\* a handler that runs to its return without a retry loop, after m malloc()s
FinishM(o, a, r, s, sa, m) ==
    /\ pc \in {"idle", "done"}
    /\ pc' = "done"
    /\ op' = o
    /\ arg' = a
    /\ ret' = r
    /\ sys' = s
    /\ sysAddr' = sa
    /\ mallocs' = m
    /\ buf' = FALSE

Finish(o, a, r, s, sa) == FinishM(o, a, r, s, sa, 0)

(***************************************************************************)
(* Descriptor factory.                                                     *)
(***************************************************************************)
\* the type handed to socket() as given by the caller, with no flag added
SocketType_bare(type) == type

\* type | SOCK_NONBLOCK | SOCK_CLOEXEC: the second argument of socket()
SocketType(type) == type \cup {"SOCK_NONBLOCK", "SOCK_CLOEXEC"}

\* SOCK_NONBLOCK | SOCK_CLOEXEC: the flags argument of accept4()
AcceptFlags == {"SOCK_NONBLOCK", "SOCK_CLOEXEC"}

eco_socket_socket ==
    \E type \in TypeInputs :
    \E e \in {0} \cup SocketErrs :
        LET a == [DefaultArg EXCEPT !.type = type]
            flags == SocketType(type)
        IN /\ (e = 0) => ~TableFull
           /\ IF e # 0
              THEN /\ Finish("socket", a, Return(<<LNil, LInt(e)>>),
                             <<SysCall("socket", e)>>, NoAddr)
                   /\ fds' = fds
              ELSE /\ Finish("socket", a, Return(<<LInt(NewFd)>>),
                             <<SysCall("socket", 0)>>, NoAddr)
                   /\ fds' = fds \cup {[fd |-> NewFd, flags |-> flags,
                                        by |-> "socket"]}

eco_socket_bind_common(e) ==
    IF e # 0 THEN Return(<<LBool(FALSE), LInt(e)>>) ELSE Return(<<LBool(TRUE)>>)

eco_socket_bind ==
    \E fd \in FdInputs, ip \in Ip4Inputs \cup {NilIp}, port \in PortInputs :
        LET a == [DefaultArg EXCEPT !.fd = fd, !.ip = ip, !.port = port]
        IN /\ fds' = fds
           /\ IF ip # NilIp /\ ~inet_pton4_ok(ip)
              THEN Finish("bind", a,
                          luaL_argerror(2, "not a valid IPv4 address", <<>>),
                          <<>>, NoAddr)
              ELSE \E e \in {0} \cup BindErrs :
                     Finish("bind", a, eco_socket_bind_common(e),
                            <<SysCall("bind", e)>>, EncodeInet(ip, port))

eco_socket_bind6 ==
    \E fd \in FdInputs, ip \in Ip6Inputs \cup {NilIp}, port \in PortInputs :
        LET a == [DefaultArg EXCEPT !.fd = fd, !.ip = ip, !.port = port]
        IN /\ fds' = fds
           /\ IF ip # NilIp /\ ~inet_pton6_ok(ip)
              THEN Finish("bind6", a,
                          luaL_argerror(2, "not a valid IPv6 address", <<>>),
                          <<>>, NoAddr)
              ELSE \E e \in {0} \cup BindErrs :
                     Finish("bind6", a, eco_socket_bind_common(e),
                            <<SysCall("bind", e)>>, EncodeInet6(ip, port))

\* the guard one byte late: strlen(path) > sizeof(addr.sun_path)
PathTooLong_late(path) == strlen(path) > SUN_PATH_SIZE

\* strlen(path) >= sizeof(addr.sun_path)
PathTooLong(path) == strlen(path) >= SUN_PATH_SIZE

eco_socket_bind_unix ==
    \E fd \in FdInputs, path \in PathInputs :
        LET a == [DefaultArg EXCEPT !.fd = fd, !.path = path]
        IN /\ fds' = fds
           /\ IF PathTooLong(path)
              THEN Finish("bind_unix", a, luaL_argerror(2, "path too long", <<>>),
                          <<>>, NoAddr)
              ELSE \E e \in {0} \cup BindErrs :
                     Finish("bind_unix", a, eco_socket_bind_common(e),
                            <<SysCall("bind", e)>>, EncodeUnix(path))

eco_socket_bind_nl ==
    \E fd \in FdInputs, groups \in GroupsInputs, pid \in PidInputs :
    \E e \in {0} \cup BindErrs :
        LET a == [DefaultArg EXCEPT !.fd = fd, !.groups = groups, !.pid = pid]
        IN /\ fds' = fds
           /\ Finish("bind_nl", a, eco_socket_bind_common(e),
                     <<SysCall("bind", e)>>, EncodeNl(groups, pid))

eco_socket_listen ==
    \E fd \in FdInputs :
    \E e \in {0} \cup ListenErrs :
        LET a == [DefaultArg EXCEPT !.fd = fd]
        IN /\ fds' = fds
           /\ Finish("listen", a,
                     IF e # 0 THEN Return(<<LBool(FALSE), LInt(e)>>)
                              ELSE Return(<<LBool(TRUE)>>),
                     <<SysCall("listen", e)>>, NoAddr)

\* the failure return without its lua_pushboolean(L, false)
eco_socket_connect_common_nofalse(e) ==
    IF e # 0 THEN Return(<<LInt(e)>>) ELSE Return(<<LBool(TRUE)>>)

eco_socket_connect_common(e) ==
    IF e # 0 THEN Return(<<LBool(FALSE), LInt(e)>>) ELSE Return(<<LBool(TRUE)>>)

eco_socket_connect ==
    \E fd \in FdInputs, ip \in Ip4Inputs, port \in PortInputs :
        LET a == [DefaultArg EXCEPT !.fd = fd, !.ip = ip, !.port = port]
        IN /\ fds' = fds
           /\ IF ~inet_pton4_ok(ip)
              THEN Finish("connect", a,
                          luaL_argerror(2, "not a valid IPv4 address", <<>>),
                          <<>>, NoAddr)
              ELSE \E e \in {0} \cup ConnectErrs :
                     Finish("connect", a, eco_socket_connect_common(e),
                            <<SysCall("connect", e)>>, EncodeInet(ip, port))

eco_socket_connect6 ==
    \E fd \in FdInputs, ip \in Ip6Inputs, port \in PortInputs :
        LET a == [DefaultArg EXCEPT !.fd = fd, !.ip = ip, !.port = port]
        IN /\ fds' = fds
           /\ IF ~inet_pton6_ok(ip)
              THEN Finish("connect6", a,
                          luaL_argerror(2, "not a valid IPv6 address", <<>>),
                          <<>>, NoAddr)
              ELSE \E e \in {0} \cup ConnectErrs :
                     Finish("connect6", a, eco_socket_connect_common(e),
                            <<SysCall("connect", e)>>, EncodeInet6(ip, port))

eco_socket_connect_unix ==
    \E fd \in FdInputs, path \in PathInputs :
        LET a == [DefaultArg EXCEPT !.fd = fd, !.path = path]
        IN /\ fds' = fds
           /\ IF PathTooLong(path)
              THEN Finish("connect_unix", a,
                          luaL_argerror(2, "path too long", <<>>), <<>>, NoAddr)
              ELSE \E e \in {0} \cup ConnectErrs :
                     Finish("connect_unix", a, eco_socket_connect_common(e),
                            <<SysCall("connect", e)>>, EncodeUnix(path))

eco_socket_connect_nl ==
    \E fd \in FdInputs, pid \in PidInputs :
    \E e \in {0} \cup ConnectErrs :
        LET a == [DefaultArg EXCEPT !.fd = fd, !.pid = pid]
        IN /\ fds' = fds
           /\ Finish("connect_nl", a, eco_socket_connect_common(e),
                     <<SysCall("connect", e)>>, EncodeNl(0, pid))

(***************************************************************************)
(* Handlers with a retry loop: entry, then one action per iteration.       *)
(***************************************************************************)
\* entry of a handler up to its `again:` label
Enter(o, a, sa, m) ==
    /\ pc \in {"idle", "done"}
    /\ pc' = "again"
    /\ op' = o
    /\ arg' = a
    /\ ret' = NoRet
    /\ sys' = <<>>
    /\ sysAddr' = sa
    /\ mallocs' = m
    /\ buf' = (m > 0)
    /\ fds' = fds

\* the loop without its `if (errno == EINTR) goto again`: every answer returns
Iterate_noretry(call, e, r) ==
    /\ MayAnswer(e)
    /\ sys' = Append(sys, call)
    /\ pc' = "done"
    /\ ret' = r
    /\ buf' = FALSE
    /\ UNCHANGED <<op, arg, sysAddr, mallocs>>

\* one syscall of the loop: either back to the label or to the return
Iterate(call, e, r) ==
    /\ MayAnswer(e)
    /\ sys' = Append(sys, call)
    /\ IF e = EINTR
       THEN /\ pc' = "again"
            /\ ret' = ret
            /\ buf' = buf
       ELSE /\ pc' = "done"
            /\ ret' = r
            /\ buf' = FALSE
    /\ UNCHANGED <<op, arg, sysAddr, mallocs>>

\* the error returns of the loops: what is pushed for errno e
AcceptFail(e) == Return(<<LNil, LInt(e)>>)

SendFail(e) ==
    Return(<<LNil, IF e = EPIPE THEN LStr("closed") ELSE LStr(strerror(e))>>)

RecvFail(e) == Return(<<LNil, LStr(strerror(e))>>)

SendtoFail(e) == Return(<<LNil, LStr(strerror(e))>>)

RecvfromFail(e) == Return(<<LNil, LStr(strerror(e))>>)

eco_socket_accept ==
    \E lfd \in FdInputs :
        Enter("accept", [DefaultArg EXCEPT !.fd = lfd], NoAddr, 0)

eco_socket_accept_again ==
    /\ pc = "again"
    /\ op = "accept"
    /\ \E e \in {0} \cup AcceptErrs :
        IF e # 0
        THEN /\ Iterate(SysCall("accept4", e), e, AcceptFail(e))
             /\ fds' = fds
        ELSE /\ ~TableFull
             /\ \E ka \in KernelAddrs :
                  Iterate(SysCall("accept4", 0), 0,
                          Return(<<LInt(NewFd), push_socket_addr(ka.addr, ka.len)>>))
             /\ fds' = fds \cup {[fd |-> NewFd,
                                  flags |-> AcceptFlags,
                                  by |-> "accept"]}

DataInputs == { <<1, 2>> }

\* byte counts send()/sendto() may report for len bytes
SentCounts(len) == IF len = 0 THEN {0} ELSE 1..len

eco_socket_send ==
    \E fd \in FdInputs, data \in DataInputs :
        Enter("send", [DefaultArg EXCEPT !.fd = fd, !.data = data], NoAddr, 0)

eco_socket_send_again ==
    /\ pc = "again"
    /\ op = "send"
    /\ fds' = fds
    /\ \E e \in {0} \cup SendErrs :
        IF e # 0
        THEN Iterate(SysCall("send", e), e, SendFail(e))
        ELSE \E k \in SentCounts(Len(arg.data)) :
               Iterate(SysCall("send", 0), 0, Return(<<LInt(k)>>))

LenInputs == {-1, 0, 1, 2}

\* entry of recv/recvfrom: size_t n = luaL_checkinteger(); n < 1; malloc(n)
RecvEnter(o) ==
    \E fd \in FdInputs, len \in LenInputs :
        LET a == [DefaultArg EXCEPT !.fd = fd, !.n = len]
            n == ToSizeT(len)
        IN IF n < 1
           THEN /\ Finish(o, a, luaL_argerror(2, "must be greater than 0", <<>>),
                          <<>>, NoAddr)
                /\ fds' = fds
           ELSE \/ /\ n <= PTRDIFF_MAX
                   /\ Enter(o, a, NoAddr, 1)
                \/ /\ FinishM(o, a, Return(<<LNil, LStr(strerror(ENOMEM))>>),
                              <<>>, NoAddr, 1)
                   /\ fds' = fds

\* bytes recv()/recvfrom() may store into a buffer of n bytes
RecvCounts(n) == 0..Min(n, Len(KernelBytes))

eco_socket_recv == RecvEnter("recv")

eco_socket_recv_again ==
    /\ pc = "again"
    /\ op = "recv"
    /\ fds' = fds
    /\ \E e \in {0} \cup RecvErrs :
        IF e # 0
        THEN Iterate(SysCall("recv", e), e, RecvFail(e))
        ELSE \E k \in RecvCounts(ToSizeT(arg.n)) :
               Iterate(SysCall("recv", 0), 0,
                       Return(<<LBytes(SubSeq(KernelBytes, 1, k))>>))

eco_socket_recvfrom == RecvEnter("recvfrom")

eco_socket_recvfrom_again ==
    /\ pc = "again"
    /\ op = "recvfrom"
    /\ fds' = fds
    /\ \E e \in {0} \cup RecvErrs :
        IF e # 0
        THEN Iterate(SysCall("recvfrom", e), e, RecvfromFail(e))
        ELSE \E k \in RecvCounts(ToSizeT(arg.n)), ka \in KernelSrcAddrs :
               Iterate(SysCall("recvfrom", 0), 0,
                       IF ka.len # 0
                       THEN Return(<<LBytes(SubSeq(KernelBytes, 1, k)),
                                     push_socket_addr(ka.addr, ka.len)>>)
                       ELSE Return(<<LBytes(SubSeq(KernelBytes, 1, k))>>))

SendtoOps == {"sendto", "sendto6", "sendto_unix", "sendto_nl"}

eco_socket_sendto ==
    \E fd \in FdInputs, data \in DataInputs, ip \in Ip4Inputs, port \in PortInputs :
        LET a == [DefaultArg EXCEPT !.fd = fd, !.data = data, !.ip = ip,
                                    !.port = port]
        IN IF ~inet_pton4_ok(ip)
           THEN /\ Finish("sendto", a,
                          luaL_argerror(2, "not a valid IPv4 address", <<>>),
                          <<>>, NoAddr)
                /\ fds' = fds
           ELSE Enter("sendto", a, EncodeInet(ip, port), 0)

eco_socket_sendto6 ==
    \E fd \in FdInputs, data \in DataInputs, ip \in Ip6Inputs, port \in PortInputs :
        LET a == [DefaultArg EXCEPT !.fd = fd, !.data = data, !.ip = ip,
                                    !.port = port]
        IN IF ~inet_pton6_ok(ip)
           THEN /\ Finish("sendto6", a,
                          luaL_argerror(2, "not a valid IPv6 address", <<>>),
                          <<>>, NoAddr)
                /\ fds' = fds
           ELSE Enter("sendto6", a, EncodeInet6(ip, port), 0)

eco_socket_sendto_unix ==
    \E fd \in FdInputs, data \in DataInputs, path \in LPathInputs :
        LET a == [DefaultArg EXCEPT !.fd = fd, !.data = data, !.path = path]
            pathlen == Len(path)
        IN IF pathlen >= SUN_PATH_SIZE
           THEN /\ Finish("sendto_unix", a,
                          luaL_argerror(2, "path too long", <<>>), <<>>, NoAddr)
                /\ fds' = fds
           ELSE Enter("sendto_unix", a, EncodeUnix(path), 0)

eco_socket_sendto_nl ==
    \E fd \in FdInputs, data \in DataInputs, pid \in PidInputs :
        Enter("sendto_nl", [DefaultArg EXCEPT !.fd = fd, !.data = data, !.pid = pid],
              EncodeNl(0, pid), 0)

eco_socket_sendto_common ==
    /\ pc = "again"
    /\ op \in SendtoOps
    /\ fds' = fds
    /\ \E e \in {0} \cup SendErrs :
        IF e # 0
        THEN Iterate(SysCall("sendto", e), e, SendtoFail(e))
        ELSE \E k \in SentCounts(Len(arg.data)) :
               Iterate(SysCall("sendto", 0), 0, Return(<<LInt(k)>>))

(***************************************************************************)
(* Address queries.                                                        *)
(***************************************************************************)
NameQuery(o, call) ==
    \E fd \in FdInputs :
    \E e \in {0} \cup NameErrs :
        LET a == [DefaultArg EXCEPT !.fd = fd]
        IN /\ fds' = fds
           /\ IF e # 0
              THEN Finish(o, a, Return(<<LNil, LStr(strerror(e))>>),
                          <<SysCall(call, e)>>, NoAddr)
              ELSE \E ka \in KernelAddrs :
                     Finish(o, a, Return(<<push_socket_addr(ka.addr, ka.len)>>),
                            <<SysCall(call, 0)>>, NoAddr)

eco_socket_getsockname == NameQuery("getsockname", "getsockname")

eco_socket_getpeername == NameQuery("getpeername", "getpeername")

(***************************************************************************)
(* Option registry.                                                        *)
(***************************************************************************)
N_reuseaddr ==
    <<"r", "e", "u", "s", "e", "a", "d", "d", "r">>

N_error ==
    <<"e", "r", "r", "o", "r">>

N_reuseport ==
    <<"r", "e", "u", "s", "e", "p", "o", "r", "t">>

N_keepalive ==
    <<"k", "e", "e", "p", "a", "l", "i", "v", "e">>

N_tcp_keepidle ==
    <<"t", "c", "p", "_", "k", "e", "e", "p", "i", "d", "l", "e">>

N_tcp_keepintvl ==
    <<"t", "c", "p", "_", "k", "e", "e", "p", "i", "n", "t", "v", "l">>

N_tcp_keepcnt ==
    <<"t", "c", "p", "_", "k", "e", "e", "p", "c", "n", "t">>

N_tcp_fastopen ==
    <<"t", "c", "p", "_", "f", "a", "s", "t", "o", "p", "e", "n">>

N_tcp_nodelay ==
    <<"t", "c", "p", "_", "n", "o", "d", "e", "l", "a", "y">>

N_ipv6_v6only ==
    <<"i", "p", "v", "6", "_", "v", "6", "o", "n", "l", "y">>

N_bindtodevice ==
    <<"b", "i", "n", "d", "t", "o", "d", "e", "v", "i", "c", "e">>

N_netlink_add_membership ==
    <<"n", "e", "t", "l", "i", "n", "k", "_", "a", "d", "d", "_", "m", "e", "m", "b", "e", "r", "s", "h", "i", "p">>

N_netlink_drop_membership ==
    <<"n", "e", "t", "l", "i", "n", "k", "_", "d", "r", "o", "p", "_", "m", "e", "m", "b", "e", "r", "s", "h", "i", "p">>

\* strcmp(): 0 exactly when the two strings have the same characters
RECURSIVE strcmpFrom(_, _, _)
strcmpFrom(a, b, i) ==
    IF i > Len(a) /\ i > Len(b) THEN 0
    ELSE IF i > Len(a) \/ i > Len(b) THEN 1
    ELSE IF a[i] # b[i] THEN 1
    ELSE strcmpFrom(a, b, i + 1)

\* a comparison over the length of the first string only: strncmp(a, b, strlen(a))
strcmp_prefix(a, b) ==
    IF Len(a) <= Len(b) /\ SubSeq(b, 1, Len(a)) = a THEN 0 ELSE 1

strcmp(a, b) == strcmpFrom(a, b, 1)

optget ==
    << [name |-> N_reuseaddr, func |-> "opt_get_reuseaddr"],
       [name |-> N_error, func |-> "opt_get_error"] >>

optset ==
    << [name |-> N_reuseaddr, func |-> "opt_set_reuseaddr"],
       [name |-> N_reuseport, func |-> "opt_set_reuseport"],
       [name |-> N_keepalive, func |-> "opt_set_keepalive"],
       [name |-> N_tcp_keepidle, func |-> "opt_set_tcp_keepidle"],
       [name |-> N_tcp_keepintvl, func |-> "opt_set_tcp_keepintvl"],
       [name |-> N_tcp_keepcnt, func |-> "opt_set_tcp_keepcnt"],
       [name |-> N_tcp_fastopen, func |-> "opt_set_tcp_fastopen"],
       [name |-> N_tcp_nodelay, func |-> "opt_set_tcp_nodelay"],
       [name |-> N_ipv6_v6only, func |-> "opt_set_ipv6_v6only"],
       [name |-> N_bindtodevice, func |-> "opt_set_bindtodevice"],
       [name |-> N_netlink_add_membership, func |-> "opt_set_netlink_add_membership"],
       [name |-> N_netlink_drop_membership, func |-> "opt_set_netlink_drop_membership"] >>

\* while (o->name && strcmp(name, o->name)) o++;  Len(tbl) + 1 is the
\* {NULL, NULL} entry that ends the table
RECURSIVE ScanFrom(_, _, _)
ScanFrom(tbl, name, i) ==
    IF i > Len(tbl) THEN i
    ELSE IF strcmp(name, tbl[i].name) # 0 THEN ScanFrom(tbl, name, i + 1)
    ELSE i

\* o->func after the scan
Lookup(tbl, name) ==
    LET i == ScanFrom(tbl, name, 1)
    IN IF i > Len(tbl) THEN "NULL" ELSE tbl[i].func

\* sprintf(msg, "unsupported option '%.35s'", name)
Unsupported(name) ==
    luaL_argerror(2, "unsupported option",
                  SubSeq(name, 1, Min(Len(name), OPT_MSG_PRECISION)))

OptErrs == {EBADF}

\* values getsockopt() may store for a boolean option
BoolOptVals == {0, 1}

\* values getsockopt(SO_ERROR) may store
SoErrorVals == {0, ECONNREFUSED}

opt_getboolean(a, opt) ==
    \E e \in {0} \cup OptErrs :
        IF e # 0
        THEN Finish("getoption", a, Return(<<LNil, LStr(strerror(e))>>),
                    <<SysOpt("getsockopt", opt, e)>>, NoAddr)
        ELSE \E val \in BoolOptVals :
               Finish("getoption", a, Return(<<LBool(val # 0)>>),
                      <<SysOpt("getsockopt", opt, 0)>>, NoAddr)

opt_get_error(a) ==
    \E e \in {0} \cup OptErrs :
        IF e # 0
        THEN Finish("getoption", a, Return(<<LInt(e)>>),
                    <<SysOpt("getsockopt", "SO_ERROR", e)>>, NoAddr)
        ELSE \E val \in SoErrorVals :
               Finish("getoption", a, Return(<<LInt(val)>>),
                      <<SysOpt("getsockopt", "SO_ERROR", 0)>>, NoAddr)

N_Error ==
    <<"E", "r", "r", "o", "r">>

N_REUSEADDR ==
    <<"R", "E", "U", "S", "E", "A", "D", "D", "R">>

N_reuse ==
    <<"r", "e", "u", "s", "e">>

N_errors ==
    <<"e", "r", "r", "o", "r", "s">>

\* one character more than the message keeps
N_long == Rep("x", OPT_MSG_PRECISION + 1)

TableNames == { optget[i].name : i \in 1..Len(optget) }
                  \cup { optset[i].name : i \in 1..Len(optset) }

NameInputs == TableNames \cup {N_Error, N_REUSEADDR, N_reuse, N_errors, N_long, <<>>}

eco_socket_getoption ==
    \E fd \in FdInputs, name \in NameInputs :
        LET a == [DefaultArg EXCEPT !.fd = fd, !.name = name]
            func == Lookup(optget, name)
        IN /\ fds' = fds
           /\ IF func = "NULL"
              THEN Finish("getoption", a, Unsupported(name), <<>>, NoAddr)
              ELSE IF func = "opt_get_reuseaddr"
              THEN opt_getboolean(a, "SO_REUSEADDR")
              ELSE opt_get_error(a)

opt_set(a, opt) ==
    \E e \in {0} \cup OptErrs :
        Finish("setoption", a,
               IF e # 0 THEN Return(<<LBool(FALSE), LStr(strerror(e))>>)
                        ELSE Return(<<LBool(TRUE)>>),
               <<SysOpt("setsockopt", opt, e)>>, NoAddr)

\* luaL_checktype / luaL_checkinteger / luaL_checkstring on argument 3
TypeError(a, expected) ==
    Finish("setoption", a, luaL_argerror(3, expected, <<>>), <<>>, NoAddr)

opt_setboolean(a, opt) ==
    IF a.val.t # "boolean" THEN TypeError(a, "boolean expected")
    ELSE opt_set(a, opt)

opt_setint(a, opt) ==
    IF a.val.t # "integer" THEN TypeError(a, "number expected")
    ELSE opt_set(a, opt)

\* strlen(ifname) >= IFNAMSIZ
NameTooLong(ifname) == Len(ifname) >= IFNAMSIZ

opt_set_bindtodevice(a) ==
    IF a.val.t # "string" THEN TypeError(a, "string expected")
    ELSE IF NameTooLong(a.val.v)
    THEN Finish("setoption", a, luaL_argerror(3, "ifname too long", <<>>),
                <<>>, NoAddr)
    ELSE opt_set(a, "SO_BINDTODEVICE")

\* the socket option and value shape each assignment handler is bound to
SetHandler(func) ==
    CASE func = "opt_set_reuseaddr" -> [shape |-> "boolean", opt |-> "SO_REUSEADDR"]
      [] func = "opt_set_reuseport" -> [shape |-> "boolean", opt |-> "SO_REUSEPORT"]
      [] func = "opt_set_keepalive" -> [shape |-> "boolean", opt |-> "SO_KEEPALIVE"]
      [] func = "opt_set_tcp_keepidle" -> [shape |-> "int", opt |-> "TCP_KEEPIDLE"]
      [] func = "opt_set_tcp_keepintvl" -> [shape |-> "int", opt |-> "TCP_KEEPINTVL"]
      [] func = "opt_set_tcp_keepcnt" -> [shape |-> "int", opt |-> "TCP_KEEPCNT"]
      [] func = "opt_set_tcp_fastopen" -> [shape |-> "int", opt |-> "TCP_FASTOPEN"]
      [] func = "opt_set_tcp_nodelay" -> [shape |-> "boolean", opt |-> "TCP_NODELAY"]
      [] func = "opt_set_ipv6_v6only" -> [shape |-> "boolean", opt |-> "IPV6_V6ONLY"]
      [] func = "opt_set_bindtodevice" -> [shape |-> "ifreq", opt |-> "SO_BINDTODEVICE"]
      [] func = "opt_set_netlink_add_membership" -> [shape |-> "int", opt |-> "NETLINK_ADD_MEMBERSHIP"]
      [] func = "opt_set_netlink_drop_membership" -> [shape |-> "int", opt |-> "NETLINK_DROP_MEMBERSHIP"]

ValInputs ==
    { LBool(TRUE), LInt(1), LStr(Rep("a", IFNAMSIZ - 1)), LStr(Rep("b", IFNAMSIZ)) }

eco_socket_setoption ==
    \E fd \in FdInputs, name \in NameInputs, val \in ValInputs :
        LET a == [DefaultArg EXCEPT !.fd = fd, !.name = name, !.val = val]
            func == Lookup(optset, name)
        IN /\ fds' = fds
           /\ IF func = "NULL"
              THEN Finish("setoption", a, Unsupported(name), <<>>, NoAddr)
              ELSE LET h == SetHandler(func)
                   IN IF h.shape = "boolean" THEN opt_setboolean(a, h.opt)
                      ELSE IF h.shape = "int" THEN opt_setint(a, h.opt)
                      ELSE opt_set_bindtodevice(a)

Next ==
    \/ eco_socket_socket
    \/ eco_socket_bind
    \/ eco_socket_bind6
    \/ eco_socket_bind_unix
    \/ eco_socket_bind_nl
    \/ eco_socket_listen
    \/ eco_socket_connect
    \/ eco_socket_connect6
    \/ eco_socket_connect_unix
    \/ eco_socket_connect_nl
    \/ eco_socket_accept
    \/ eco_socket_accept_again
    \/ eco_socket_send
    \/ eco_socket_send_again
    \/ eco_socket_recv
    \/ eco_socket_recv_again
    \/ eco_socket_recvfrom
    \/ eco_socket_recvfrom_again
    \/ eco_socket_sendto
    \/ eco_socket_sendto6
    \/ eco_socket_sendto_unix
    \/ eco_socket_sendto_nl
    \/ eco_socket_sendto_common
    \/ eco_socket_getsockname
    \/ eco_socket_getpeername
    \/ eco_socket_getoption
    \/ eco_socket_setoption

Spec == Init /\ [][Next]_vars

\* an iteration of a retry loop whose syscall answers anything but EINTR
LoopReturn ==
    /\ \/ eco_socket_accept_again
       \/ eco_socket_send_again
       \/ eco_socket_recv_again
       \/ eco_socket_recvfrom_again
       \/ eco_socket_sendto_common
    /\ pc' = "done"

\* the kernel does not answer EINTR for ever to a call that keeps retrying
FairSpec == Spec /\ WF_vars(LoopReturn)

(***************************************************************************)
(* Vocabulary of the properties.                                           *)
(***************************************************************************)
ConnectOps == {"connect", "connect6", "connect_unix", "connect_nl"}

\* errno of the last syscall the call issued (0: none issued, or success)
LastErr == IF sys = <<>> THEN 0 ELSE sys[Len(sys)].err

Returned == pc = "done" /\ ret.kind = "return"

\* the Lua types of the values returned, in order
Shape(r) == [i \in 1..Len(r.vals) |-> r.vals[i].t]

\* nil or false in the primary position
Absent(v) == v.t = "nil" \/ (v.t = "boolean" /\ v.v = FALSE)

\* an error number, or an error text
IsErrorIndicator(v) == v.t = "integer" \/ (v.t = "string" /\ "v" \in DOMAIN v)

\* the value is errno e, as a number or as its strerror() text
Carries(v, e) ==
    \/ v.t = "integer" /\ v.v = e
    \/ v.t = "string" /\ "v" \in DOMAIN v /\ v.v = strerror(e)

FailureForm(r) ==
    Len(r.vals) = 2 /\ Absent(r.vals[1]) /\ IsErrorIndicator(r.vals[2])

(***************************************************************************)
(* C1: no accept, connect, send, receive, send_to or receive_from returns  *)
(* a failure whose error indicator is EINTR.                               *)
(***************************************************************************)
C1_Ops == {"accept", "send", "recv", "recvfrom"} \cup ConnectOps \cup SendtoOps

C1_EINTRNeverSurfaced ==
    (Returned /\ op \in C1_Ops /\ FailureForm(ret)) => ~Carries(ret.vals[2], EINTR)

(***************************************************************************)
(* C2: a connect whose syscall reports EINPROGRESS returns a result whose  *)
(* shape differs from the result of every hard connect failure.            *)
(***************************************************************************)
HardConnectErrs == ConnectErrs \ {EINTR, EINPROGRESS}

C2_PendingIsDistinguished ==
    (Returned /\ op \in ConnectOps /\ LastErr = EINPROGRESS)
        => \A e \in HardConnectErrs :
              Shape(ret) # Shape(eco_socket_connect_common(e))

(***************************************************************************)
(* C3: an accept, send, receive, send_to or receive_from that would block  *)
(* (EAGAIN) returns at once, with a result whose shape differs from the    *)
(* result of an error of that operation.                                   *)
(***************************************************************************)
C3_Ops == {"accept", "send", "recv", "recvfrom"} \cup SendtoOps

\* the result of the operation for a hard error e
ErrorOutcome(o, e) ==
    CASE o = "accept" -> AcceptFail(e)
      [] o = "send" -> SendFail(e)
      [] o = "recv" -> RecvFail(e)
      [] o = "recvfrom" -> RecvfromFail(e)
      [] OTHER -> SendtoFail(e)

HardErrs(o) ==
    CASE o = "accept" -> AcceptErrs \ {EINTR, EAGAIN}
      [] o \in {"recv", "recvfrom"} -> RecvErrs \ {EINTR, EAGAIN}
      [] OTHER -> SendErrs \ {EINTR, EAGAIN}

C3_WouldBlockIsNotAnError ==
    (op \in C3_Ops /\ LastErr = EAGAIN)
        => /\ Returned
           /\ \A e \in HardErrs(op) : Shape(ret) # Shape(ErrorOutcome(op, e))

(***************************************************************************)
(* C4: after a syscall failure other than EINTR the error indicator is the *)
(* errno of that failure as a number, except that EPIPE on a write is the  *)
(* closed-connection signal.                                               *)
(***************************************************************************)
WriteCalls == {"send", "sendto"}

C4_ErrnoVerbatim ==
    (pc = "done" /\ LastErr # 0
       /\ ~(LastErr = EPIPE /\ sys[Len(sys)].call \in WriteCalls))
        => /\ ret.kind = "return"
           /\ Len(ret.vals) = 2
           /\ ret.vals[2] = LInt(LastErr)

(***************************************************************************)
(* C5: a send or send_to (any family) whose syscall fails with EPIPE       *)
(* returns the closed-connection signal.                                   *)
(***************************************************************************)
C5_BrokenPipeIsClosed ==
    (pc = "done" /\ op \in {"send"} \cup SendtoOps /\ LastErr = EPIPE)
        => ret.vals = <<LNil, LStr("closed")>>

(***************************************************************************)
(* C6: decoding the struct and length an operation encoded gives back      *)
(* every field of the logical address: ip and port (Inet, Inet6), the      *)
(* whole path (Unix), pid and groups (Netlink).                            *)
(***************************************************************************)
Decoded == push_socket_addr(sysAddr.addr, sysAddr.len).f

C6_RoundTrip ==
    (pc # "idle" /\ sysAddr # NoAddr) =>
        LET family == sysAddr.addr.sa_family
        IN /\ Decoded.family = LInt(family)
           /\ family \in {AF_INET, AF_INET6} =>
                /\ Decoded.port = LInt(arg.port)
                /\ arg.ip # NilIp => Decoded.ipaddr = LIp(arg.ip)
           /\ family = AF_UNIX => Decoded.path = LBytes(arg.path)
           /\ family = AF_NETLINK =>
                /\ "pid" \in DOMAIN Decoded
                /\ Decoded.pid = LInt(arg.pid)
                /\ "groups" \in DOMAIN Decoded
                /\ Decoded.groups = LInt(arg.groups)

(***************************************************************************)
(* C7: receive and receive_from with max_length below 1 raise the argument *)
(* error, without a malloc() and without a syscall.                        *)
(***************************************************************************)
C7_LengthBelowOneRejected ==
    (pc # "idle" /\ op \in {"recv", "recvfrom"} /\ arg.n < 1)
        => /\ pc = "done"
           /\ ret.kind = "raise"
           /\ ret.msg.text = "must be greater than 0"
           /\ mallocs = 0
           /\ sys = <<>>

(***************************************************************************)
(* C8: get_option runs a handler exactly when the name is an entry of the  *)
(* retrieval table, set_option exactly when it is an entry of the          *)
(* assignment table, and it is the handler of that entry; any other name   *)
(* raises the unsupported-option error carrying the name, with no syscall. *)
(***************************************************************************)
Entries(tbl) == { tbl[i] : i \in 1..Len(tbl) }

EntryNames(tbl) == { en.name : en \in Entries(tbl) }

\* the socket option the entry of a name reads or writes
OptionOf(o, name) ==
    IF o = "getoption"
    THEN (IF name = N_reuseaddr THEN "SO_REUSEADDR" ELSE "SO_ERROR")
    ELSE SetHandler((CHOOSE en \in Entries(optset) : en.name = name).func).opt

UnsupportedRaised ==
    /\ ret.kind = "raise"
    /\ ret.narg = 2
    /\ ret.msg.text = "unsupported option"
    /\ ret.msg.name = SubSeq(arg.name, 1, Min(Len(arg.name), OPT_MSG_PRECISION))
    /\ sys = <<>>

\* the handler of the entry ran: it returned after its syscall, or rejected
\* the value argument
HandlerRan ==
    \/ /\ ret.kind = "return"
       /\ Len(sys) = 1
       /\ sys[1].opt = OptionOf(op, arg.name)
    \/ /\ ret.kind = "raise"
       /\ ret.narg = 3
       /\ sys = <<>>

C8_ExactLookup ==
    (pc = "done" /\ op \in {"getoption", "setoption"}) =>
        LET tbl == IF op = "getoption" THEN optget ELSE optset
        IN IF arg.name \in EntryNames(tbl) THEN HandlerRan ELSE UnsupportedRaised

C8_Witness ==
    /\ pc = "done"
    /\ op = "setoption"
    /\ arg.name = N_error
    /\ UnsupportedRaised

(***************************************************************************)
(* C9: bind_unix, connect_unix and send_to_unix raise "path too long"      *)
(* exactly when the path has sizeof(sun_path) bytes or more, and otherwise *)
(* encode the path and issue the syscall; the bind-to-device option raises *)
(* "ifname too long" exactly when the name has IFNAMSIZ bytes or more; a   *)
(* rejected call issues no syscall.                                        *)
(***************************************************************************)
UnixOps == {"bind_unix", "connect_unix", "sendto_unix"}

Raised(narg, text) ==
    /\ pc = "done"
    /\ ret.kind = "raise"
    /\ ret.narg = narg
    /\ ret.msg.text = text
    /\ sys = <<>>
    /\ sysAddr = NoAddr

C9_PathGuard ==
    (pc # "idle" /\ op \in UnixOps) =>
        IF Len(arg.path) >= SUN_PATH_SIZE
        THEN Raised(2, "path too long")
        ELSE /\ ret.kind # "raise"
             /\ sysAddr.addr.sa_family = AF_UNIX
             /\ SubSeq(sysAddr.addr.sun_path, 1, Len(arg.path)) = arg.path
             /\ pc = "done" => Len(sys) >= 1

C9_NameGuard ==
    (pc = "done" /\ op = "setoption" /\ arg.name = N_bindtodevice
       /\ arg.val.t = "string") =>
        IF Len(arg.val.v) >= IFNAMSIZ
        THEN Raised(3, "ifname too long")
        ELSE /\ ret.kind = "return"
             /\ sys # <<>>
             /\ sys[1].opt = "SO_BINDTODEVICE"

C9_FixedBufferGuards == C9_PathGuard /\ C9_NameGuard

C9_Witness ==
    /\ op = "bind_unix"
    /\ Len(arg.path) = SUN_PATH_SIZE
    /\ Raised(2, "path too long")

(***************************************************************************)
(* C10.  As claimed: every returned result is a success (a payload and no  *)
(* error indicator) when the call's syscall succeeded, and a failure (nil  *)
(* or false, then the error indicator) when the syscall or the allocation  *)
(* failed.                                                                 *)
(***************************************************************************)
CallFailed == LastErr # 0 \/ (sys = <<>> /\ mallocs > 0)

SuccessForm(r) ==
    /\ Len(r.vals) \in {1, 2}
    /\ r.vals[1].t # "nil"
    /\ Len(r.vals) = 2 => ~IsErrorIndicator(r.vals[2])

TwoOutcomes ==
    IF CallFailed THEN FailureForm(ret) ELSE SuccessForm(ret) /\ ~FailureForm(ret)

C10_TwoOutcomes == Returned => TwoOutcomes

(***************************************************************************)
(* C10 as amended: the same for every descriptor operation except          *)
(* get_option("error"), which always returns one integer: the pending      *)
(* error of the descriptor, or the errno of the query when the query fails.*)
(***************************************************************************)
IsGetError == op = "getoption" /\ arg.name = N_error

C10_TwoOutcomesExceptGetError ==
    Returned =>
        IF IsGetError
        THEN /\ Shape(ret) = <<"integer">>
             /\ LastErr # 0 => ret.vals[1] = LInt(LastErr)
        ELSE TwoOutcomes

C10_Witness ==
    /\ Returned
    /\ IsGetError
    /\ LastErr # 0
    /\ ret.vals = <<LInt(LastErr)>>

(***************************************************************************)
(* C11: every descriptor created by socket() or accept4() carries the      *)
(* non-blocking and the close-on-exec flag from the creating syscall on,   *)
(* whatever type value the caller gave; the descriptor a call hands out is *)
(* such a descriptor; and no call ever removes a descriptor (the core      *)
(* closes none).                                                           *)
(***************************************************************************)
RequiredFlags == {"SOCK_NONBLOCK", "SOCK_CLOEXEC"}

Flagged(d) == RequiredFlags \subseteq d.flags

\* the call has just handed a descriptor to its caller
HandsOut == Returned /\ op \in {"socket", "accept"} /\ LastErr = 0

C11_AllFlagged ==
    /\ \A d \in fds : Flagged(d)
    /\ HandsOut => \E d \in fds : d.fd = ret.vals[1].v /\ Flagged(d)

C11_DescriptorsFlaggedNeverClosed ==
    /\ []C11_AllFlagged
    /\ [][fds \subseteq fds']_vars

C11_Witness ==
    /\ HandsOut
    /\ op = "socket"
    /\ "SOCK_NONBLOCK" \notin arg.type
    /\ \E d \in fds : d.fd = ret.vals[1].v /\ d.by = "socket" /\ Flagged(d)

(***************************************************************************)
(* C12: in accept, send, receive, send_to and receive_from only EINTR is   *)
(* retried and the loop ends.  While a call is in its loop every answer it *)
(* has had is EINTR; when it has returned after k EINTR answers it has     *)
(* issued exactly k + 1 syscalls, all the same syscall, the last answer is *)
(* the only one that is not EINTR and the result is the result of that     *)
(* answer; and, the kernel not answering EINTR for ever, a call in its     *)
(* loop does return.                                                       *)
(***************************************************************************)
LoopOps == {"accept", "send", "recv", "recvfrom"} \cup SendtoOps

AllEINTR(s) == \A i \in 1..Len(s) : s[i].err = EINTR

\* the syscall of each loop
LoopCall(o) ==
    CASE o = "accept" -> "accept4"
      [] o = "send" -> "send"
      [] o = "recv" -> "recv"
      [] o = "recvfrom" -> "recvfrom"
      [] OTHER -> "sendto"

\* the result is that of the last answer
ResultOfLastAnswer ==
    /\ ret.kind = "return"
    /\ IF LastErr # 0
       THEN /\ FailureForm(ret)
            /\ \/ Carries(ret.vals[2], LastErr)
               \/ LastErr = EPIPE /\ op = "send" /\ ret.vals[2] = LStr("closed")
       ELSE ~FailureForm(ret)

C12_Looping == pc = "again" /\ op \in LoopOps

C12_Finished == pc = "done" /\ op \in LoopOps

C12_OnlyEINTRRetried ==
    /\ pc = "again" => op \in LoopOps /\ AllEINTR(sys) /\ ret.kind = "none"
    /\ (C12_Finished /\ sys # <<>>) =>
          /\ AllEINTR(SubSeq(sys, 1, Len(sys) - 1))
          /\ LastErr # EINTR
          /\ Len(sys) = CountEINTR(sys) + 1
          /\ \A i \in 1..Len(sys) : sys[i].call = LoopCall(op)
          /\ ResultOfLastAnswer

C12_RetryLoopsTerminate ==
    /\ []C12_OnlyEINTRRetried
    /\ C12_Looping ~> C12_Finished

C12_Witness ==
    /\ C12_Finished
    /\ op = "recvfrom"
    /\ CountEINTR(sys) = 2
    /\ Len(sys) = 3
    /\ ResultOfLastAnswer

====
